---- MODULE Spec2Model ----
(***************************************************************************)
(* Model of build.py, the Unity plug-in build script: Main() resolves the  *)
(* four selection axes from the command line tokens, prepares the build    *)
(* and test output directories, and then drives the phases configure,      *)
(* process plug-ins, validate versions, build tests and package through    *)
(* the toolchain and plug-in manager collaborators.                        *)
(***************************************************************************)
EXTENDS Integers, Sequences, FiniteSets, TLC

VARIABLES
    args,                \* build_args: the parsed command line
    invocation_time,     \* datetime.now() at the start of Main
    CTX,                 \* the build context
    fs,                  \* the directories that exist
    scan,                \* the entries CTX.plugin_root.iterdir() yields, in order
    log,                 \* printer messages, prompts and collaborator calls, in order
    pc,                  \* position of Main
    err,                 \* the exception that ended the run, "" if none
    unity_plugin_manager,\* whether the local of that name is bound
    plugin_path_list,    \* the local list built at lines 324-332
    idx,                 \* position of the running for loop over plug-in paths
    run,                 \* number of the invocation
    history              \* what earlier and the current invocation did to the test directories

vars == <<args, invocation_time, CTX, fs, scan, log, pc, err,
          unity_plugin_manager, plugin_path_list, idx, run, history>>

---------------------------------------------------------------------------
(* Bounds of the model *)

\* most entries of the plug-in root when the plug-in ordering is explored
MaxEntries == 3
\* longest token list given to one option when the resolution is explored
MaxTokens == 3
\* invocation times are (sec, usec) with sec in 0..MaxSec
MaxSec == 1
\* and usec in 0..MaxUsec
MaxUsec == 1
\* invocations of the script in a row
MaxRuns == 2

---------------------------------------------------------------------------
(* Identifiers of scripts.upi_cli_argument_options *)

ALL == "all"
NONE == "none"
\* a token that is no identifier of any axis
BOGUS == "bogus"

BUILD == "build"
PACK == "pack"
BuildActionKeys == {BUILD, PACK}

IOS == "iOS"
MACOS == "macOS"
TVOS == "tvOS"
PlatformKeys == {IOS, MACOS, TVOS}

ACCESSIBILITY == "accessibility"
CORE == "core"
CORE_HAPTICS == "corehaptics"
GAME_CONTROLLER == "gamecontroller"
GAME_KIT == "gamekit"
PHASE == "phase"
PluginKeys == {ACCESSIBILITY, CORE, CORE_HAPTICS, GAME_CONTROLLER, GAME_KIT, PHASE}

NATIVE == "native"
PACKAGES == "packages"
TESTS == "tests"
CleanActionKeys == {NATIVE, PACKAGES, TESTS}

---------------------------------------------------------------------------
(* Printer output and collaborator calls *)

Ev(name, a) == [ev |-> name, arg |-> a, prompt |-> FALSE]

AllSelected(keys) == [k \in keys |-> TRUE]

NoneSelected(keys) == [k \in keys |-> FALSE]

---------------------------------------------------------------------------
(* Resolution of the four axes, lines 123-248.  Each loop carries the      *)
(* selection, the valid_*_found flag and the warnings printed so far.      *)

LoopStart(keys) == [sel |-> NoneSelected(keys), valid |-> FALSE, out |-> <<>>]

\* the loop with the break after NONE left out
RECURSIVE BuildActionLoopNoBreak(_, _, _)
BuildActionLoopNoBreak(tokens, i, st) ==
    IF i > Len(tokens) THEN st
    ELSE LET action == tokens[i] IN
         IF action \in DOMAIN st.sel
         THEN BuildActionLoopNoBreak(tokens, i + 1,
                  [st EXCEPT !.sel[action] = TRUE, !.valid = TRUE])
         ELSE IF action = ALL
         THEN [st EXCEPT !.sel = AllSelected(DOMAIN st.sel), !.valid = TRUE]
         ELSE IF action = NONE
         THEN BuildActionLoopNoBreak(tokens, i + 1,
                  [st EXCEPT !.sel = NoneSelected(DOMAIN st.sel), !.valid = TRUE])
         ELSE BuildActionLoopNoBreak(tokens, i + 1,
                  [st EXCEPT !.out = Append(@, Ev("WarnUnknownBuildAction", <<action>>))])

RECURSIVE BuildActionLoop(_, _, _)
BuildActionLoop(tokens, i, st) ==
    IF i > Len(tokens) THEN st
    ELSE LET action == tokens[i] IN
         IF action \in DOMAIN st.sel
         THEN BuildActionLoop(tokens, i + 1,
                  [st EXCEPT !.sel[action] = TRUE, !.valid = TRUE])
         ELSE IF action = ALL
         THEN [st EXCEPT !.sel = AllSelected(DOMAIN st.sel), !.valid = TRUE]
         ELSE IF action = NONE
         THEN [st EXCEPT !.sel = NoneSelected(DOMAIN st.sel), !.valid = TRUE]
         ELSE BuildActionLoop(tokens, i + 1,
                  [st EXCEPT !.out = Append(@, Ev("WarnUnknownBuildAction", <<action>>))])

ResolveBuildActions(tokens) ==
    LET st == BuildActionLoop(tokens, 1, LoopStart(BuildActionKeys)) IN
    IF ~st.valid
    THEN [st EXCEPT !.out = Append(@, Ev("WarnNoValidBuildAction", <<>>)),
                    !.sel = AllSelected(BuildActionKeys)]
    ELSE st

\* the loop with the break after ALL left out
RECURSIVE PlatformLoopNoBreak(_, _, _)
PlatformLoopNoBreak(tokens, i, st) ==
    IF i > Len(tokens) THEN st
    ELSE LET platform_id == tokens[i] IN
         IF platform_id = ALL
         THEN PlatformLoopNoBreak(tokens, i + 1,
                  [st EXCEPT !.valid = TRUE, !.sel = AllSelected(DOMAIN st.sel)])
         ELSE IF platform_id \in DOMAIN st.sel
         THEN PlatformLoopNoBreak(tokens, i + 1,
                  [st EXCEPT !.valid = TRUE, !.sel[platform_id] = TRUE])
         ELSE PlatformLoopNoBreak(tokens, i + 1,
                  [st EXCEPT !.out = Append(@, Ev("WarnUnknownPlatform", <<platform_id>>))])

RECURSIVE PlatformLoop(_, _, _)
PlatformLoop(tokens, i, st) ==
    IF i > Len(tokens) THEN st
    ELSE LET platform_id == tokens[i] IN
         IF platform_id = ALL
         THEN [st EXCEPT !.valid = TRUE, !.sel = AllSelected(DOMAIN st.sel)]
         ELSE IF platform_id \in DOMAIN st.sel
         THEN PlatformLoop(tokens, i + 1,
                  [st EXCEPT !.valid = TRUE, !.sel[platform_id] = TRUE])
         ELSE PlatformLoop(tokens, i + 1,
                  [st EXCEPT !.out = Append(@, Ev("WarnUnknownPlatform", <<platform_id>>))])

ResolvePlatforms(tokens) ==
    LET st == PlatformLoop(tokens, 1, LoopStart(PlatformKeys)) IN
    IF ~st.valid
    THEN [st EXCEPT !.out = Append(@, Ev("WarnNoValidPlatform", <<>>)),
                    !.sel = AllSelected(PlatformKeys)]
    ELSE st

\* the loop with the NONE branch of the build and clean actions copied in
RECURSIVE PluginLoopWithNone(_, _, _)
PluginLoopWithNone(tokens, i, st) ==
    IF i > Len(tokens) THEN st
    ELSE LET plugin_id == tokens[i] IN
         IF plugin_id \in DOMAIN st.sel
         THEN PluginLoopWithNone(tokens, i + 1,
                  [st EXCEPT !.sel[plugin_id] = TRUE, !.valid = TRUE])
         ELSE IF plugin_id = ALL
         THEN [st EXCEPT !.sel = AllSelected(DOMAIN st.sel), !.valid = TRUE]
         ELSE IF plugin_id = NONE
         THEN [st EXCEPT !.sel = NoneSelected(DOMAIN st.sel), !.valid = TRUE]
         ELSE PluginLoopWithNone(tokens, i + 1,
                  [st EXCEPT !.out = Append(@, Ev("WarnUnknownPlugin", <<plugin_id>>))])

RECURSIVE PluginLoop(_, _, _)
PluginLoop(tokens, i, st) ==
    IF i > Len(tokens) THEN st
    ELSE LET plugin_id == tokens[i] IN
         IF plugin_id \in DOMAIN st.sel
         THEN PluginLoop(tokens, i + 1,
                  [st EXCEPT !.sel[plugin_id] = TRUE, !.valid = TRUE])
         ELSE IF plugin_id = ALL
         THEN [st EXCEPT !.sel = AllSelected(DOMAIN st.sel), !.valid = TRUE]
         ELSE PluginLoop(tokens, i + 1,
                  [st EXCEPT !.out = Append(@, Ev("WarnUnknownPlugin", <<plugin_id>>))])

\* the rule with the assignment of line 212 left out
CoreDependencyRuleNoAssign(st, build_tests) ==
    IF build_tests /\ ~st.sel[CORE]
    THEN [st EXCEPT !.out = @ \o <<Ev("WarnCoreNotSelected", <<>>),
                                   Ev("InfoCoreDependency", <<>>),
                                   Ev("StatusAddingCore", <<>>)>>]
    ELSE st

\* lines 205-212: Apple.Core is added when tests are built
CoreDependencyRule(st, build_tests) ==
    IF build_tests /\ ~st.sel[CORE]
    THEN [st EXCEPT !.out = @ \o <<Ev("WarnCoreNotSelected", <<>>),
                                   Ev("InfoCoreDependency", <<>>),
                                   Ev("StatusAddingCore", <<>>)>>,
                    !.sel[CORE] = TRUE]
    ELSE st

\* lines 214-217
PluginDefault(st) ==
    IF ~st.valid
    THEN [st EXCEPT !.out = Append(@, Ev("WarnNoValidPlugin", <<>>)),
                    !.sel = AllSelected(PluginKeys)]
    ELSE st

ResolvePlugins(tokens, build_tests) ==
    PluginDefault(CoreDependencyRule(PluginLoop(tokens, 1, LoopStart(PluginKeys)),
                                     build_tests))

RECURSIVE CleanActionLoop(_, _, _)
CleanActionLoop(tokens, i, st) ==
    IF i > Len(tokens) THEN st
    ELSE LET action == tokens[i] IN
         IF action \in DOMAIN st.sel
         THEN CleanActionLoop(tokens, i + 1,
                  [st EXCEPT !.sel[action] = TRUE, !.valid = TRUE])
         ELSE IF action = ALL
         THEN [st EXCEPT !.sel = AllSelected(DOMAIN st.sel), !.valid = TRUE]
         ELSE IF action = NONE
         THEN [st EXCEPT !.sel = NoneSelected(DOMAIN st.sel), !.valid = TRUE]
         ELSE CleanActionLoop(tokens, i + 1,
                  [st EXCEPT !.out = Append(@, Ev("WarnUnknownCleanAction", <<action>>))])

\* the default of the other axes, every member true, used for the clean actions
ResolveCleanActionsDefaultAll(tokens) ==
    LET st == CleanActionLoop(tokens, 1, LoopStart(CleanActionKeys)) IN
    IF ~st.valid
    THEN [st EXCEPT !.out = Append(@, Ev("WarnNoValidCleanAction", <<>>)),
                    !.sel = AllSelected(CleanActionKeys)]
    ELSE st

ResolveCleanActions(tokens) ==
    LET st == CleanActionLoop(tokens, 1, LoopStart(CleanActionKeys)) IN
    IF ~st.valid
    THEN [st EXCEPT !.out = Append(@, Ev("WarnNoValidCleanAction", <<>>)),
                    !.sel = NoneSelected(CleanActionKeys)]
    ELSE st

---------------------------------------------------------------------------
(* Paths and the directory tree *)

Root == <<>>

Parent(p) == SubSeq(p, 1, Len(p) - 1)

Join(p, name) == Append(p, name)

Name(p) == p[Len(p)]

IsPrefix(p, q) == Len(p) <= Len(q) /\ SubSeq(q, 1, Len(p)) = p

\* pathlib.Path.exists / is_dir on the tree of directories
Exists(dirs, p) == p = Root \/ p \in dirs

\* value of a path attribute that has not been assigned
NoPath == <<"<unset>">>

\* mkdir(exist_ok=True): an existing folder is taken as it is
MkdirExistOk(dirs, p) ==
    IF Exists(dirs, p) THEN [err |-> "", fs |-> dirs]
    ELSE IF ~Exists(dirs, Parent(p)) THEN [err |-> "FileNotFoundError", fs |-> dirs]
    ELSE [err |-> "", fs |-> dirs \cup {p}]

\* pathlib.Path.mkdir(): parents=False, exist_ok=False
Mkdir(dirs, p) ==
    IF Exists(dirs, p) THEN [err |-> "FileExistsError", fs |-> dirs]
    ELSE IF ~Exists(dirs, Parent(p)) THEN [err |-> "FileNotFoundError", fs |-> dirs]
    ELSE [err |-> "", fs |-> dirs \cup {p}]

\* the tree without p and everything below it
RemoveTree(dirs, p) == {q \in dirs : ~IsPrefix(p, q)}

\* defaults of the BuildContext
DefaultBuildOutputPath == <<"Build">>
DefaultTestBuildRoot == <<"TestBuilds">>
PluginRoot == <<"plug-ins">>

\* strftime("%Y-%m-%d_%H-%M-%S"): the microseconds of the time are not printed
TimeString(t) == "2026-11-04_21-29-0" \o ToString(t.sec)

TestBuildName(t) == "TestBuild_" \o TimeString(t)

Times == [sec : 0..MaxSec, usec : 0..MaxUsec]

Later(t, u) == u.sec > t.sec \/ (u.sec = t.sec /\ u.usec > t.usec)

---------------------------------------------------------------------------
(* The context before Main assigns it *)

InitialCTX ==
    [build_actions |-> NoneSelected(BuildActionKeys),
     platforms |-> NoneSelected(PlatformKeys),
     plugins |-> NoneSelected(PluginKeys),
     clean_actions |-> NoneSelected(CleanActionKeys),
     build_tests |-> FALSE,
     build_path |-> NoPath,
     test_build_root |-> DefaultTestBuildRoot,
     test_build_output_path |-> NoPath,
     plugin_root |-> PluginRoot,
     codesign_hash |-> "<unset>"]

---------------------------------------------------------------------------
(* Main, lines 119-254: "Validate Input" *)

ValidateInput ==
    /\ pc = "validate"
    /\ LET b == ResolveBuildActions(args.build_actions)
           m == ResolvePlatforms(args.platform_list)
           p == ResolvePlugins(args.plugin_list, args.build_tests)
           k == ResolveCleanActions(args.clean_actions)
       IN /\ CTX' = [CTX EXCEPT !.build_actions = b.sel,
                                !.platforms = m.sel,
                                !.plugins = p.sel,
                                !.build_tests = args.build_tests,
                                !.clean_actions = k.sel]
          /\ log' = log \o b.out \o m.out \o p.out \o k.out
    /\ pc' = "clean_packages"
    /\ UNCHANGED <<args, invocation_time, fs, scan, err, unity_plugin_manager,
                   plugin_path_list, idx, run, history>>

---------------------------------------------------------------------------
(* utility.RemoveFolder(path, prompt, printer): with prompt the user is     *)
(* asked first and may decline, which leaves the folder and returns; the   *)
(* removal itself may fail with an OSError.                                *)

RemoveOutcomes(prompt) ==
    IF prompt THEN {"removed", "declined", "error"} ELSE {"removed", "error"}

\* One call of RemoveFolder from Main at position pc, continuing at next.
RemoveFolder(path, prompt, next) ==
    \E outcome \in RemoveOutcomes(prompt) :
        LET call == [ev |-> "RemoveFolder", arg |-> path, prompt |-> prompt] IN
        \/ /\ outcome = "removed"
           /\ fs' = RemoveTree(fs, path)
           /\ log' = Append(log, call)
           /\ pc' = next
           /\ err' = err
        \/ /\ outcome = "declined"
           /\ fs' = fs
           /\ log' = log \o <<call, Ev("RemoveDeclined", path)>>
           /\ pc' = next
           /\ err' = err
        \/ /\ outcome = "error"
           /\ fs' = fs
           /\ log' = Append(log, call)
           /\ pc' = "crashed"
           /\ err' = "OSError"

---------------------------------------------------------------------------
(* Main, lines 258-298: "Configure Build Paths" *)

\* the step with the test of CTX.build_path.exists() left out
CleanPackagesNoExistsTest ==
    /\ pc = "clean_packages"
    /\ CTX' = [CTX EXCEPT !.build_path = args.output_path]
    /\ \/ /\ CTX.clean_actions[PACKAGES]
          /\ RemoveFolder(args.output_path, ~args.force_clean, "build_path")
       \/ /\ ~CTX.clean_actions[PACKAGES]
          /\ pc' = "build_path"
          /\ UNCHANGED <<fs, log, err>>
    /\ UNCHANGED <<args, invocation_time, scan, unity_plugin_manager,
                   plugin_path_list, idx, run, history>>

\* lines 261-266
CleanPackages ==
    /\ pc = "clean_packages"
    /\ CTX' = [CTX EXCEPT !.build_path = args.output_path]
    /\ \/ /\ CTX.clean_actions[PACKAGES] /\ Exists(fs, args.output_path)
          /\ RemoveFolder(args.output_path, ~args.force_clean, "build_path")
       \/ /\ ~(CTX.clean_actions[PACKAGES] /\ Exists(fs, args.output_path))
          /\ pc' = "build_path"
          /\ UNCHANGED <<fs, log, err>>
    /\ UNCHANGED <<args, invocation_time, scan, unity_plugin_manager,
                   plugin_path_list, idx, run, history>>

\* the step with the test of CTX.build_path.exists() left out
CreateBuildPathNoExistsTest ==
    /\ pc = "build_path"
    /\ \/ /\ (CTX.build_actions[BUILD] \/ CTX.build_actions[PACK])
          /\ LET r == Mkdir(fs, CTX.build_path) IN
             /\ fs' = r.fs
             /\ log' = Append(log, Ev("mkdir", CTX.build_path))
             /\ err' = r.err
             /\ pc' = IF r.err = "" THEN "clean_tests" ELSE "crashed"
       \/ /\ ~(CTX.build_actions[BUILD] \/ CTX.build_actions[PACK])
          /\ pc' = "clean_tests"
          /\ UNCHANGED <<fs, log, err>>
    /\ UNCHANGED <<args, invocation_time, CTX, scan, unity_plugin_manager,
                   plugin_path_list, idx, run, history>>

\* the step taken for build action "build" alone
CreateBuildPathOnBuildOnly ==
    /\ pc = "build_path"
    /\ \/ /\ CTX.build_actions[BUILD]
          /\ ~Exists(fs, CTX.build_path)
          /\ LET r == Mkdir(fs, CTX.build_path) IN
             /\ fs' = r.fs
             /\ log' = Append(log, Ev("mkdir", CTX.build_path))
             /\ err' = r.err
             /\ pc' = IF r.err = "" THEN "clean_tests" ELSE "crashed"
       \/ /\ ~(CTX.build_actions[BUILD] /\ ~Exists(fs, CTX.build_path))
          /\ pc' = "clean_tests"
          /\ UNCHANGED <<fs, log, err>>
    /\ UNCHANGED <<args, invocation_time, CTX, scan, unity_plugin_manager,
                   plugin_path_list, idx, run, history>>

\* lines 268-272
CreateBuildPath ==
    /\ pc = "build_path"
    /\ \/ /\ (CTX.build_actions[BUILD] \/ CTX.build_actions[PACK])
          /\ ~Exists(fs, CTX.build_path)
          /\ LET r == Mkdir(fs, CTX.build_path) IN
             /\ fs' = r.fs
             /\ log' = Append(log, Ev("mkdir", CTX.build_path))
             /\ err' = r.err
             /\ pc' = IF r.err = "" THEN "clean_tests" ELSE "crashed"
       \/ /\ ~((CTX.build_actions[BUILD] \/ CTX.build_actions[PACK])
                /\ ~Exists(fs, CTX.build_path))
          /\ pc' = "clean_tests"
          /\ UNCHANGED <<fs, log, err>>
    /\ UNCHANGED <<args, invocation_time, CTX, scan, unity_plugin_manager,
                   plugin_path_list, idx, run, history>>

\* the step with the loop over the plug-in root outside the block of line 276
CleanTestsLoopOutside ==
    /\ pc = "clean_tests"
    /\ \/ /\ CTX.clean_actions[TESTS] /\ Exists(fs, args.test_output_path)
          /\ RemoveFolder(args.test_output_path, ~args.force_clean, "clean_players")
       \/ /\ ~(CTX.clean_actions[TESTS] /\ Exists(fs, args.test_output_path))
          /\ pc' = IF CTX.clean_actions[TESTS] THEN "clean_players" ELSE "test_paths"
          /\ UNCHANGED <<fs, log, err>>
    /\ idx' = 1
    /\ UNCHANGED <<args, invocation_time, CTX, scan, unity_plugin_manager,
                   plugin_path_list, run, history>>

\* lines 275-278: test_build_root_path is the path given with -to
CleanTests ==
    /\ pc = "clean_tests"
    /\ \/ /\ CTX.clean_actions[TESTS] /\ Exists(fs, args.test_output_path)
          /\ RemoveFolder(args.test_output_path, ~args.force_clean, "clean_players")
       \/ /\ ~(CTX.clean_actions[TESTS] /\ Exists(fs, args.test_output_path))
          /\ pc' = "test_paths"
          /\ UNCHANGED <<fs, log, err>>
    /\ idx' = 1
    /\ UNCHANGED <<args, invocation_time, CTX, scan, unity_plugin_manager,
                   plugin_path_list, run, history>>

\* lines 284-285
TestPlayerPath(curr_plugin_path) ==
    Join(Join(curr_plugin_path, Name(curr_plugin_path) \o "_Unity"), "TestPlayers")

\* lines 279-288: one iteration of the loop over CTX.plugin_root.iterdir()
CleanTestPlayers ==
    /\ pc = "clean_players"
    /\ \/ /\ idx > Len(scan)
          /\ pc' = "test_paths"
          /\ UNCHANGED <<fs, log, err, idx>>
       \/ /\ idx <= Len(scan)
          /\ idx' = idx + 1
          /\ LET curr_plugin_path == Join(CTX.plugin_root, scan[idx])
                 curr_test_player_path == TestPlayerPath(curr_plugin_path)
             IN \/ /\ Exists(fs, curr_plugin_path)
                   /\ Exists(fs, Parent(curr_test_player_path))
                   /\ Exists(fs, curr_test_player_path)
                   /\ RemoveFolder(curr_test_player_path, ~args.force_clean,
                                   "clean_players")
                \/ /\ ~(/\ Exists(fs, curr_plugin_path)
                        /\ Exists(fs, Parent(curr_test_player_path))
                        /\ Exists(fs, curr_test_player_path))
                   /\ UNCHANGED <<fs, log, err, pc>>
    /\ UNCHANGED <<args, invocation_time, CTX, scan, unity_plugin_manager,
                   plugin_path_list, run, history>>

\* line 291: the root that is tested for existence
TestRootProbe(ctx, test_build_root_path) == ctx.test_build_root

\* line 297: the root the time-stamped folder is put under
TestRunParent(ctx, test_build_root_path) == ctx.test_build_root

\* line 297
TestBuildOutputPath(root, t) == Join(root, TestBuildName(t))

\* the step with the failures of mkdir reported but not raised
CreateTestPathsKeepsGoing ==
    /\ pc = "test_paths"
    /\ \/ /\ ~CTX.build_tests
          /\ pc' = "configure"
          /\ UNCHANGED <<CTX, fs, log, err, history>>
       \/ /\ CTX.build_tests
          /\ LET test_build_root_path == args.test_output_path
                 missing == ~Exists(fs, TestRootProbe(CTX, test_build_root_path))
                 r1 == IF missing THEN Mkdir(fs, test_build_root_path)
                       ELSE [err |-> "", fs |-> fs]
                 out1 == IF missing THEN <<Ev("mkdir", test_build_root_path)>> ELSE <<>>
                 target == TestBuildOutputPath(
                               TestRunParent(CTX, test_build_root_path), invocation_time)
                 r2 == Mkdir(r1.fs, target)
             IN /\ CTX' = [CTX EXCEPT !.test_build_output_path = target]
                /\ fs' = r2.fs
                /\ log' = log \o out1 \o <<Ev("mkdir", target)>>
                /\ err' = IF r1.err # "" THEN r1.err ELSE r2.err
                /\ pc' = "configure"
                /\ history' = Append(history,
                       [run |-> run, time |-> invocation_time, dir |-> target,
                        existed |-> Exists(r1.fs, target),
                        created |-> r2.err = ""])
    /\ UNCHANGED <<args, invocation_time, scan, unity_plugin_manager,
                   plugin_path_list, idx, run>>

\* lines 290-298
CreateTestPaths ==
    /\ pc = "test_paths"
    /\ \/ /\ ~CTX.build_tests
          /\ pc' = "configure"
          /\ UNCHANGED <<CTX, fs, log, err, history>>
       \/ /\ CTX.build_tests
          /\ LET test_build_root_path == args.test_output_path
                 missing == ~Exists(fs, TestRootProbe(CTX, test_build_root_path))
                 r1 == IF missing THEN Mkdir(fs, test_build_root_path)
                       ELSE [err |-> "", fs |-> fs]
                 out1 == IF missing THEN <<Ev("mkdir", test_build_root_path)>> ELSE <<>>
                 target == TestBuildOutputPath(
                               TestRunParent(CTX, test_build_root_path), invocation_time)
                 r2 == Mkdir(r1.fs, target)
             IN \/ /\ r1.err # ""
                   /\ fs' = fs
                   /\ log' = log \o out1
                   /\ err' = r1.err
                   /\ pc' = "crashed"
                   /\ UNCHANGED <<CTX, history>>
                \/ /\ r1.err = ""
                   /\ CTX' = [CTX EXCEPT !.test_build_output_path = target]
                   /\ fs' = r2.fs
                   /\ log' = log \o out1 \o <<Ev("mkdir", target)>>
                   /\ err' = r2.err
                   /\ pc' = IF r2.err = "" THEN "configure" ELSE "crashed"
                   /\ history' = Append(history,
                          [run |-> run, time |-> invocation_time, dir |-> target,
                           existed |-> Exists(r1.fs, target),
                           created |-> r2.err = ""])
    /\ UNCHANGED <<args, invocation_time, scan, unity_plugin_manager,
                   plugin_path_list, idx, run>>

---------------------------------------------------------------------------
(* Main, lines 302-348: the phases *)

\* the resolution with a supplied identity winning over skip_codesign
CodesignHashIdentityFirst(skip_codesign, codesign_identity, answer) ==
    IF codesign_identity # "" THEN codesign_identity
    ELSE IF skip_codesign THEN ""
    ELSE answer

\* lines 311-314; the prompter's answer is asked for only when it is used
CodesignHash(skip_codesign, codesign_identity, answer) ==
    IF skip_codesign THEN ""
    ELSE IF codesign_identity # "" THEN codesign_identity
    ELSE answer

PromptsForCodesign(skip_codesign, codesign_identity) ==
    ~skip_codesign /\ codesign_identity = ""

\* what the user types at toolchain.PromptForCodesignIdentity
PromptAnswers == {"PROMPTED-IDENTITY"}

\* the list with Apple.Core appended like the others
RECURSIVE PluginPathListAppendOnly(_, _, _, _)
PluginPathListAppendOnly(dirs, entries, i, list) ==
    IF i > Len(entries) THEN list
    ELSE LET curr_plugin_path == Join(PluginRoot, entries[i]) IN
         IF ~Exists(dirs, curr_plugin_path)
         THEN PluginPathListAppendOnly(dirs, entries, i + 1, list)
         ELSE PluginPathListAppendOnly(dirs, entries, i + 1, Append(list, curr_plugin_path))

\* the list with the folders of the plug-ins that are not selected left out
RECURSIVE PluginPathListSelectedOnly(_, _, _, _)
PluginPathListSelectedOnly(dirs, entries, i, list) ==
    IF i > Len(entries) THEN list
    ELSE LET curr_plugin_path == Join(PluginRoot, entries[i])
             selected == CASE entries[i] = "Apple.Core" -> CTX.plugins[CORE]
                           [] entries[i] = "Apple.GameKit" -> CTX.plugins[GAME_KIT]
                           [] entries[i] = "Apple.PHASE" -> CTX.plugins[PHASE]
                           [] OTHER -> TRUE
         IN IF ~Exists(dirs, curr_plugin_path) \/ ~selected
            THEN PluginPathListSelectedOnly(dirs, entries, i + 1, list)
            ELSE IF Name(curr_plugin_path) = "Apple.Core"
            THEN PluginPathListSelectedOnly(dirs, entries, i + 1, <<curr_plugin_path>> \o list)
            ELSE PluginPathListSelectedOnly(dirs, entries, i + 1, Append(list, curr_plugin_path))

\* lines 324-332: Apple.Core is inserted at the front, the others are appended
RECURSIVE PluginPathList(_, _, _, _)
PluginPathList(dirs, entries, i, list) ==
    IF i > Len(entries) THEN list
    ELSE LET curr_plugin_path == Join(PluginRoot, entries[i]) IN
         IF ~Exists(dirs, curr_plugin_path)
         THEN PluginPathList(dirs, entries, i + 1, list)
         ELSE IF Name(curr_plugin_path) = "Apple.Core"
         THEN PluginPathList(dirs, entries, i + 1, <<curr_plugin_path>> \o list)
         ELSE PluginPathList(dirs, entries, i + 1, Append(list, curr_plugin_path))

\* the block with the manager made before the toolchain is asked for its versions
ConfigureBuildManagerFirst ==
    /\ pc = "configure"
    /\ \/ /\ ~CTX.build_actions[BUILD]
          /\ pc' = "tests"
          /\ UNCHANGED <<CTX, log, unity_plugin_manager, plugin_path_list, idx>>
       \/ /\ CTX.build_actions[BUILD]
          /\ \E answer \in PromptAnswers :
               LET asks == PromptsForCodesign(args.skip_codesign, args.codesign_identity) IN
               /\ CTX' = [CTX EXCEPT !.codesign_hash =
                             CodesignHash(args.skip_codesign, args.codesign_identity, answer)]
               /\ log' = log \o <<Ev("NativeUnityPluginManager", <<>>),
                                  Ev("ScanForUnityInstallations", <<>>)>>
                             \o (IF asks THEN <<Ev("PromptForCodesignIdentity", <<>>)>>
                                 ELSE <<>>)
                             \o <<Ev("GetToolchainVersions", <<>>)>>
          /\ unity_plugin_manager' = TRUE
          /\ plugin_path_list' = PluginPathList(fs, scan, 1, <<>>)
          /\ idx' = 1
          /\ pc' = "process"
    /\ UNCHANGED <<args, invocation_time, fs, scan, err, run, history>>

\* the block entered like the creation of the build path of line 268, on
\* build action "build" or "pack"
ConfigureBuildOnBuildOrPack ==
    /\ pc = "configure"
    /\ \/ /\ ~(CTX.build_actions[BUILD] \/ CTX.build_actions[PACK])
          /\ pc' = "tests"
          /\ UNCHANGED <<CTX, log, unity_plugin_manager, plugin_path_list, idx>>
       \/ /\ CTX.build_actions[BUILD] \/ CTX.build_actions[PACK]
          /\ \E answer \in PromptAnswers :
               LET asks == PromptsForCodesign(args.skip_codesign, args.codesign_identity) IN
               /\ CTX' = [CTX EXCEPT !.codesign_hash =
                             CodesignHash(args.skip_codesign, args.codesign_identity, answer)]
               /\ log' = log \o <<Ev("GetToolchainVersions", <<>>)>>
                             \o (IF asks THEN <<Ev("PromptForCodesignIdentity", <<>>)>>
                                 ELSE <<>>)
                             \o <<Ev("NativeUnityPluginManager", <<>>),
                                  Ev("ScanForUnityInstallations", <<>>)>>
          /\ unity_plugin_manager' = TRUE
          /\ plugin_path_list' = PluginPathList(fs, scan, 1, <<>>)
          /\ idx' = 1
          /\ pc' = "process"
    /\ UNCHANGED <<args, invocation_time, fs, scan, err, run, history>>

\* lines 302-332
ConfigureBuild ==
    /\ pc = "configure"
    /\ \/ /\ ~CTX.build_actions[BUILD]
          /\ pc' = "tests"
          /\ UNCHANGED <<CTX, log, unity_plugin_manager, plugin_path_list, idx>>
       \/ /\ CTX.build_actions[BUILD]
          /\ \E answer \in PromptAnswers :
               LET asks == PromptsForCodesign(args.skip_codesign, args.codesign_identity) IN
               /\ CTX' = [CTX EXCEPT !.codesign_hash =
                             CodesignHash(args.skip_codesign, args.codesign_identity, answer)]
               /\ log' = log \o <<Ev("GetToolchainVersions", <<>>)>>
                             \o (IF asks THEN <<Ev("PromptForCodesignIdentity", <<>>)>>
                                 ELSE <<>>)
                             \o <<Ev("NativeUnityPluginManager", <<>>),
                                  Ev("ScanForUnityInstallations", <<>>)>>
          /\ unity_plugin_manager' = TRUE
          /\ plugin_path_list' = PluginPathList(fs, scan, 1, <<>>)
          /\ idx' = 1
          /\ pc' = "process"
    /\ UNCHANGED <<args, invocation_time, fs, scan, err, run, history>>

\* what a call of ProcessNativeUnityPlugin may do: return, or raise
ProcessOutcomes == {"ok", "raise"}

\* the loop as it would be with the call wrapped in try/except: a raise is
\* reported and the loop goes on
ProcessNativeUnityPluginCaught ==
    /\ pc = "process"
    /\ idx <= Len(plugin_path_list)
    /\ \E outcome \in ProcessOutcomes :
         /\ log' = Append(log, Ev("ProcessNativeUnityPlugin", plugin_path_list[idx]))
         /\ idx' = idx + 1
         /\ err' = IF outcome = "raise" THEN "PluginError" ELSE err
         /\ UNCHANGED pc
    /\ UNCHANGED <<args, invocation_time, CTX, fs, scan, unity_plugin_manager,
                   plugin_path_list, run, history>>

\* lines 334-335: one iteration; an exception of the call is not handled in Main
ProcessNativeUnityPlugin ==
    /\ pc = "process"
    /\ idx <= Len(plugin_path_list)
    /\ \E outcome \in ProcessOutcomes :
         /\ log' = Append(log, Ev("ProcessNativeUnityPlugin", plugin_path_list[idx]))
         /\ \/ /\ outcome = "ok"
               /\ idx' = idx + 1
               /\ UNCHANGED <<pc, err>>
            \/ /\ outcome = "raise"
               /\ pc' = "crashed"
               /\ err' = "PluginError"
               /\ UNCHANGED idx
    /\ UNCHANGED <<args, invocation_time, CTX, fs, scan, unity_plugin_manager,
                   plugin_path_list, run, history>>

\* lines 337-338, after the loop
ValidateProjectVersions ==
    /\ pc = "process"
    /\ idx > Len(plugin_path_list)
    /\ log' = Append(log, Ev("ValidateProjectVersions", <<>>))
    /\ pc' = "tests"
    /\ UNCHANGED <<args, invocation_time, CTX, fs, scan, err, unity_plugin_manager,
                   plugin_path_list, idx, run, history>>

\* A use of the local unity_plugin_manager, which line 318 binds inside the
\* block of build action "build": unbound, the use raises UnboundLocalError.
ManagerCall(bound, name, next) ==
    \/ /\ bound
       /\ log' = Append(log, Ev(name, <<>>))
       /\ pc' = next
       /\ err' = err
    \/ /\ ~bound
       /\ log' = log
       /\ pc' = "crashed"
       /\ err' = "UnboundLocalError"

\* lines 340-342
BuildTests ==
    /\ pc = "tests"
    /\ \/ /\ CTX.build_tests
          /\ ManagerCall(unity_plugin_manager, "BuildTests", "pack")
       \/ /\ ~CTX.build_tests
          /\ pc' = "pack"
          /\ UNCHANGED <<log, err>>
    /\ UNCHANGED <<args, invocation_time, CTX, fs, scan, unity_plugin_manager,
                   plugin_path_list, idx, run, history>>

\* lines 344-346
GeneratePlugInPackages ==
    /\ pc = "pack"
    /\ \/ /\ CTX.build_actions[PACK]
          /\ ManagerCall(unity_plugin_manager, "GeneratePlugInPackages", "finish")
       \/ /\ ~CTX.build_actions[PACK]
          /\ pc' = "finish"
          /\ UNCHANGED <<log, err>>
    /\ UNCHANGED <<args, invocation_time, CTX, fs, scan, unity_plugin_manager,
                   plugin_path_list, idx, run, history>>

\* line 348
Finish ==
    /\ pc = "finish"
    /\ log' = Append(log, Ev("Finished", <<>>))
    /\ pc' = "done"
    /\ UNCHANGED <<args, invocation_time, CTX, fs, scan, err, unity_plugin_manager,
                   plugin_path_list, idx, run, history>>

\* The script is invoked again, later, with the same command line, on the
\* directories the earlier invocation left.
NewRun ==
    /\ pc \in {"done", "crashed"}
    /\ run < MaxRuns
    /\ \E t \in Times :
         /\ Later(invocation_time, t)
         /\ invocation_time' = t
    /\ run' = run + 1
    /\ CTX' = InitialCTX
    /\ log' = <<>>
    /\ pc' = "validate"
    /\ err' = ""
    /\ unity_plugin_manager' = FALSE
    /\ plugin_path_list' = <<>>
    /\ idx' = 1
    /\ UNCHANGED <<args, fs, scan, history>>

---------------------------------------------------------------------------
(* Command lines, directory trees and specifications *)

SeqsUpTo(S, n) == UNION {[1..k -> S] : k \in 0..n}

\* the defaults of the argument parser, lines 73-85
DefaultArgs ==
    [plugin_list |-> <<ALL>>,
     platform_list |-> <<ALL>>,
     build_actions |-> <<BUILD, PACK>>,
     codesign_identity |-> "",
     skip_codesign |-> FALSE,
     output_path |-> DefaultBuildOutputPath,
     clean_actions |-> <<NONE>>,
     force_clean |-> FALSE,
     build_tests |-> FALSE,
     test_output_path |-> DefaultTestBuildRoot]

\* the tokens tried on each axis
BuildActionTokens == BuildActionKeys \cup {ALL, NONE, BOGUS}
PlatformTokens == PlatformKeys \cup {ALL, NONE, BOGUS}
PluginTokens == {ACCESSIBILITY, CORE, GAME_KIT, ALL, NONE, BOGUS}
CleanActionTokens == CleanActionKeys \cup {ALL, NONE, BOGUS}

\* command lines that vary the token list of one axis, with and without -t
ResolveArgs ==
    UNION {
        {[DefaultArgs EXCEPT !.build_actions = l, !.build_tests = t] :
            l \in SeqsUpTo(BuildActionTokens, MaxTokens)}
        \cup {[DefaultArgs EXCEPT !.platform_list = l, !.build_tests = t] :
            l \in SeqsUpTo(PlatformTokens, MaxTokens)}
        \cup {[DefaultArgs EXCEPT !.plugin_list = l, !.build_tests = t] :
            l \in SeqsUpTo(PluginTokens, MaxTokens)}
        \cup {[DefaultArgs EXCEPT !.clean_actions = l, !.build_tests = t] :
            l \in SeqsUpTo(CleanActionTokens, MaxTokens)}
        : t \in BOOLEAN}

\* paths given with -o and -to: the default, another one, one below a missing folder
OtherTestRoot == <<"OtherTests">>
OutputPaths == {DefaultBuildOutputPath, <<"nodir", "Build">>}
TestOutputPaths == {DefaultTestBuildRoot, OtherTestRoot, <<"nodir", "Tests">>}

\* command lines of the runs whose path preparation and phases are explored
RunArgs ==
    {[DefaultArgs EXCEPT !.build_actions = b, !.clean_actions = k,
                         !.build_tests = t, !.force_clean = f,
                         !.skip_codesign = s, !.codesign_identity = c,
                         !.output_path = o, !.test_output_path = r] :
        b \in {<<BUILD, PACK>>, <<BUILD>>, <<PACK>>, <<NONE>>},
        k \in {<<NONE>>, <<PACKAGES>>, <<TESTS>>, <<ALL>>},
        t \in BOOLEAN, f \in BOOLEAN, s \in BOOLEAN, c \in {"", "ABC123"},
        o \in OutputPaths, r \in TestOutputPaths}

\* the plug-in root as found on disk: the order of iterdir() and the folders
PluginRootStates ==
    {[scan |-> <<"Apple.GameKit", "README.md", "Apple.Core">>,
      dirs |-> {PluginRoot,
                <<"plug-ins", "Apple.GameKit">>,
                <<"plug-ins", "Apple.GameKit", "Apple.GameKit_Unity">>,
                <<"plug-ins", "Apple.Core">>,
                <<"plug-ins", "Apple.Core", "Apple.Core_Unity">>,
                <<"plug-ins", "Apple.Core", "Apple.Core_Unity", "TestPlayers">>}],
     [scan |-> <<"Apple.PHASE", "Apple.GameKit">>,
      dirs |-> {PluginRoot,
                <<"plug-ins", "Apple.PHASE">>,
                <<"plug-ins", "Apple.GameKit">>,
                <<"plug-ins", "Apple.GameKit", "Apple.GameKit_Unity">>,
                <<"plug-ins", "Apple.GameKit", "Apple.GameKit_Unity", "TestPlayers">>}],
     [scan |-> <<"Apple.GameKit", "Apple.Core">>,
      dirs |-> {PluginRoot,
                <<"plug-ins", "Apple.GameKit">>,
                <<"plug-ins", "Apple.GameKit", "Apple.GameKit_Unity">>,
                <<"plug-ins", "Apple.GameKit", "Apple.GameKit_Unity", "TestPlayers">>,
                <<"plug-ins", "Apple.Core">>,
                <<"plug-ins", "Apple.Core", "Apple.Core_Unity">>,
                <<"plug-ins", "Apple.Core", "Apple.Core_Unity", "TestPlayers">>}]}

\* folders that may be there before the run: the output folders, and a test
\* build folder of an invocation of the same second
OptionalDirs(a, t) ==
    {a.output_path, a.test_output_path, DefaultTestBuildRoot,
     TestBuildOutputPath(DefaultTestBuildRoot, t)}

Trees(a, t) ==
    {d \in SUBSET OptionalDirs(a, t) : \A q \in d : Exists(d, Parent(q))}

InitRun(a, t, tree, pr) ==
    /\ args = a
    /\ invocation_time = t
    /\ CTX = InitialCTX
    /\ fs = tree \cup pr.dirs
    /\ scan = pr.scan
    /\ log = <<>>
    /\ pc = "validate"
    /\ err = ""
    /\ unity_plugin_manager = FALSE
    /\ plugin_path_list = <<>>
    /\ idx = 1
    /\ run = 1
    /\ history = <<>>

FirstTime == [sec |-> 0, usec |-> 0]

Init ==
    \E a \in RunArgs, pr \in PluginRootStates :
        \E tree \in Trees(a, FirstTime) : InitRun(a, FirstTime, tree, pr)

RunNext ==
    \/ ValidateInput
    \/ CleanPackages
    \/ CreateBuildPath
    \/ CleanTests
    \/ CleanTestPlayers
    \/ CreateTestPaths
    \/ ConfigureBuild
    \/ ProcessNativeUnityPlugin
    \/ ValidateProjectVersions
    \/ BuildTests
    \/ GeneratePlugInPackages
    \/ Finish

Next == RunNext

\* one invocation of the script
Spec == Init /\ [][Next]_vars

\* the resolution of the axes alone
InitResolve ==
    \E a \in ResolveArgs, pr \in PluginRootStates :
        InitRun(a, FirstTime, {DefaultBuildOutputPath}, pr)

SpecResolve == InitResolve /\ [][ValidateInput]_vars

\* invocations in a row that build tests
RunsArgs ==
    {[DefaultArgs EXCEPT !.build_actions = b, !.clean_actions = k,
                         !.build_tests = TRUE, !.force_clean = TRUE,
                         !.skip_codesign = TRUE, !.test_output_path = r] :
        b \in {<<BUILD, PACK>>, <<NONE>>},
        k \in {<<NONE>>, <<TESTS>>},
        r \in {DefaultTestBuildRoot, OtherTestRoot}}

InitRuns ==
    \E a \in RunsArgs, t \in Times, pr \in PluginRootStates :
        \E tree \in Trees(a, t) :
            /\ TestBuildOutputPath(DefaultTestBuildRoot, t) \notin tree
            /\ InitRun(a, t, tree, pr)

NextRuns == RunNext \/ NewRun

SpecRuns == InitRuns /\ [][NextRuns]_vars

---------------------------------------------------------------------------
(* Properties *)

Terminated == pc \in {"done", "crashed"}

Calls(name) == SelectSeq(log, LAMBDA e : e.ev = name)

RECURSIVE ArgsOf(_)
ArgsOf(events) ==
    IF events = <<>> THEN <<>>
    ELSE <<Head(events).arg>> \o ArgsOf(Tail(events))

Resolved == pc # "validate"

\* position of the first token of a list that is in S, 0 if there is none
FirstAt(tokens, S) ==
    LET I == {i \in 1..Len(tokens) : tokens[i] \in S} IN
    IF I = {} THEN 0 ELSE CHOOSE i \in I : \A j \in I : i <= j

OnlyUnrecognized(tokens, known) == \A i \in 1..Len(tokens) : tokens[i] \notin known

\* C1: the test-building phase depends only on buildTests: once a run has
\* come to that phase with buildTests set, BuildTests has been invoked once,
\* with or without build action "build"; without buildTests it is never
\* invoked.
C1_TestsDependOnlyOnBuildTests ==
    /\ (CTX.build_tests
        /\ (pc \in {"pack", "finish", "done"} \/ err = "UnboundLocalError"))
       => Len(Calls("BuildTests")) = 1
    /\ ~args.build_tests => Len(Calls("BuildTests")) = 0

\* C2: the packaging phase depends only on build action "pack": once a run
\* has come to that phase with "pack" enabled, GeneratePackages has been
\* invoked once, with or without build action "build"; with "pack" disabled
\* it is never invoked.
C2_PackagingDependsOnlyOnPack ==
    /\ (Resolved /\ CTX.build_actions[PACK]
        /\ (pc \in {"finish", "done"}
            \/ (err = "UnboundLocalError" /\ ~CTX.build_tests)))
       => Len(Calls("GeneratePlugInPackages")) = 1
    /\ (Resolved /\ ~CTX.build_actions[PACK])
       => Len(Calls("GeneratePlugInPackages")) = 0

\* C3: a run in which no directory creation or removal fails (and no plug-in
\* raises) is not ended by an exception, for every combination of build,
\* pack and buildTests; and a run that is done has printed the completion
\* message.
C3_RunsWithoutDirectoryFailureFinish ==
    /\ pc = "crashed"
       => err \in {"FileExistsError", "FileNotFoundError", "OSError", "PluginError"}
    /\ pc = "done" => Len(Calls("Finished")) = 1

C5_MemberNoneAllIsAllTrue ==
    Resolved =>
       /\ \A m \in BuildActionKeys :
            args.build_actions = <<m, NONE, ALL>>
            => CTX.build_actions = AllSelected(BuildActionKeys)
       /\ \A m \in CleanActionKeys :
            args.clean_actions = <<m, NONE, ALL>>
            => CTX.clean_actions = AllSelected(CleanActionKeys)

\* C5 as amended: on build actions and clean actions the token list
\* [member, NONE, ALL] resolves to every member false, NONE being the first
\* sentinel, and prints no warning for the axis.
C5_MemberNoneAllIsAllFalse ==
    Resolved =>
       /\ \A m \in BuildActionKeys :
            args.build_actions = <<m, NONE, ALL>>
            => /\ CTX.build_actions = NoneSelected(BuildActionKeys)
               /\ Calls("WarnUnknownBuildAction") = <<>>
               /\ Calls("WarnNoValidBuildAction") = <<>>
       /\ \A m \in CleanActionKeys :
            args.clean_actions = <<m, NONE, ALL>>
            => /\ CTX.clean_actions = NoneSelected(CleanActionKeys)
               /\ Calls("WarnUnknownCleanAction") = <<>>
               /\ Calls("WarnNoValidCleanAction") = <<>>

C5_Witness ==
    /\ Resolved
    /\ args.build_actions = <<BUILD, NONE, ALL>>
    /\ CTX.build_actions = NoneSelected(BuildActionKeys)

\* the warnings an axis prints for the tokens before position i of a list
\* that are not in known, in order (all tokens when i = 0)
UnknownBefore(tokens, i, known, name) ==
    LET before == IF i = 0 THEN tokens ELSE SubSeq(tokens, 1, i - 1)
        RECURSIVE Warn(_)
        Warn(l) == IF l = <<>> THEN <<>>
                   ELSE (IF Head(l) \in known THEN <<>> ELSE <<Ev(name, <<Head(l)>>)>>)
                        \o Warn(Tail(l))
    IN Warn(before)

\* the first sentinel of the list decides the axis: every member true for
\* ALL, every member false for NONE, and only the tokens before it are
\* warned about
FirstSentinelDecides(tokens, sentinels, keys, sel, name) ==
    LET i == FirstAt(tokens, sentinels) IN
    /\ (i > 0 /\ tokens[i] = ALL) => sel = AllSelected(keys)
    /\ (i > 0 /\ tokens[i] = NONE) => sel = NoneSelected(keys)
    /\ Calls(name) = UnknownBefore(tokens, i, keys \cup sentinels, name)

\* C6: on every axis the first sentinel of the token list decides the
\* result: ALL gives every member true and (build actions, clean actions)
\* NONE gives every member false, whatever tokens stand before or after it;
\* the tokens after the first sentinel have no effect and cause no warning.
C6_FirstSentinelWins ==
    Resolved =>
       /\ FirstSentinelDecides(args.build_actions, {ALL, NONE}, BuildActionKeys,
                               CTX.build_actions, "WarnUnknownBuildAction")
       /\ FirstSentinelDecides(args.platform_list, {ALL}, PlatformKeys,
                               CTX.platforms, "WarnUnknownPlatform")
       /\ FirstSentinelDecides(args.plugin_list, {ALL}, PluginKeys,
                               CTX.plugins, "WarnUnknownPlugin")
       /\ FirstSentinelDecides(args.clean_actions, {ALL, NONE}, CleanActionKeys,
                               CTX.clean_actions, "WarnUnknownCleanAction")

\* a member before ALL and an unknown token after it
C6_Witness ==
    /\ Resolved
    /\ args.platform_list = <<IOS, ALL, BOGUS>>
    /\ CTX.platforms = AllSelected(PlatformKeys)
    /\ Calls("WarnUnknownPlatform") = <<>>

\* C7: on each axis a token list that is empty or holds only unrecognized
\* tokens resolves to the default of the axis (build actions: build and pack
\* true; platforms and plug-ins: every member true; clean actions: every
\* member false) and prints the "no valid option" warning of the axis
\* exactly once.
C7_DefaultWhenNothingValid ==
    Resolved =>
       /\ OnlyUnrecognized(args.build_actions, BuildActionKeys \cup {ALL, NONE})
          => /\ CTX.build_actions = [k \in {BUILD, PACK} |-> TRUE]
             /\ Len(Calls("WarnNoValidBuildAction")) = 1
       /\ OnlyUnrecognized(args.platform_list, PlatformKeys \cup {ALL})
          => /\ CTX.platforms = AllSelected(PlatformKeys)
             /\ Len(Calls("WarnNoValidPlatform")) = 1
       /\ OnlyUnrecognized(args.plugin_list, PluginKeys \cup {ALL})
          => /\ CTX.plugins = AllSelected(PluginKeys)
             /\ Len(Calls("WarnNoValidPlugin")) = 1
       /\ OnlyUnrecognized(args.clean_actions, CleanActionKeys \cup {ALL, NONE})
          => /\ CTX.clean_actions = NoneSelected(CleanActionKeys)
             /\ Len(Calls("WarnNoValidCleanAction")) = 1

C7_Witness ==
    /\ Resolved
    /\ args.clean_actions = <<BOGUS, BOGUS>>
    /\ CTX.clean_actions = NoneSelected(CleanActionKeys)
    /\ Len(Calls("WarnNoValidCleanAction")) = 1

\* the tokens of the plug-in list select core: core itself, or ALL
CoreRequested(tokens) == \E i \in 1..Len(tokens) : tokens[i] \in {CORE, ALL}

\* C8: in every finalized plan buildTests implies that plug-in core is
\* selected; buildTests with the plug-in list [accessibility] selects exactly
\* accessibility and core; and the message about the forced dependency is
\* printed, once, exactly when buildTests is set and the tokens did not
\* select core.
C8_TestsForceCore ==
    Resolved =>
       /\ CTX.build_tests => CTX.plugins[CORE]
       /\ (args.build_tests /\ args.plugin_list = <<ACCESSIBILITY>>)
          => CTX.plugins = [k \in PluginKeys |-> k \in {ACCESSIBILITY, CORE}]
       /\ Len(Calls("InfoCoreDependency")) =
             IF args.build_tests /\ ~CoreRequested(args.plugin_list) THEN 1 ELSE 0

C8_Witness ==
    /\ Resolved
    /\ args.build_tests
    /\ args.plugin_list = <<ACCESSIBILITY>>
    /\ CTX.plugins[CORE] /\ CTX.plugins[ACCESSIBILITY]
    /\ Len(Calls("InfoCoreDependency")) = 1

LaterPhaseEvents ==
    {"GetToolchainVersions", "PromptForCodesignIdentity", "NativeUnityPluginManager",
     "ScanForUnityInstallations", "ProcessNativeUnityPlugin", "ValidateProjectVersions",
     "BuildTests", "GeneratePlugInPackages", "Finished"}

NoLaterPhase == \A i \in 1..Len(log) : log[i].ev \notin LaterPhaseEvents

\* C9: with buildTests set and a test-output path given whose parent exists,
\* a run that has left path preparation has the given test-output root in
\* place and has created TestBuild_<invocation time> below that root and
\* recorded it in the context.
C9_TestFolderBelowGivenRoot ==
    (CTX.build_tests
     /\ pc \in {"configure", "process", "tests", "pack", "finish", "done"})
    => /\ Exists(fs, args.test_output_path)
       /\ CTX.test_build_output_path =
             Join(args.test_output_path, TestBuildName(invocation_time))
       /\ Exists(fs, CTX.test_build_output_path)

---------------------------------------------------------------------------
(* The plug-in ordering over the scans of the plug-in root *)

\* names an entry of the plug-in root may have
EntryNames == {"Apple.Core", "Apple.GameKit", "Apple.PHASE", "README.md"}

\* iterdir() yields each entry once, in an order the file system chooses
Scans ==
    {sq \in SeqsUpTo(EntryNames, MaxEntries) :
        \A i, j \in 1..Len(sq) : i # j => sq[i] # sq[j]}

\* every entry is a folder or a file
OrderRootStates ==
    UNION {{[scan |-> sq,
             dirs |-> {PluginRoot} \cup {Join(PluginRoot, sq[i]) : i \in D}] :
               D \in SUBSET (1..Len(sq))} : sq \in Scans}

OrderArgs ==
    {[DefaultArgs EXCEPT !.clean_actions = k, !.force_clean = TRUE,
                         !.skip_codesign = TRUE] : k \in {<<NONE>>, <<TESTS>>}}

InitOrder ==
    \E a \in OrderArgs, pr \in OrderRootStates :
        InitRun(a, FirstTime, {DefaultBuildOutputPath, DefaultTestBuildRoot}, pr)

SpecOrder == InitOrder /\ [][RunNext]_vars

\* the folders among the scanned entries
ScannedDirs == {Join(PluginRoot, scan[i]) : i \in {j \in 1..Len(scan) :
                                                    Exists(fs, Join(PluginRoot, scan[j]))}}

ScanPos(p) == CHOOSE i \in 1..Len(scan) : Join(PluginRoot, scan[i]) = p

Ordered == CTX.build_actions[BUILD] /\ pc \in {"process", "tests", "pack", "finish", "done"}

\* C11: the plug-in processing order holds every scanned folder exactly
\* once and no entry that is not a folder, has the folder named Apple.Core
\* first whenever it is present, and keeps the other folders in the order of
\* the scan.
C11_CoreFirstOthersInScanOrder ==
    Ordered =>
       /\ {plugin_path_list[i] : i \in 1..Len(plugin_path_list)} = ScannedDirs
       /\ Len(plugin_path_list) = Cardinality(ScannedDirs)
       /\ Join(PluginRoot, "Apple.Core") \in ScannedDirs
          => plugin_path_list[1] = Join(PluginRoot, "Apple.Core")
       /\ \A i, j \in 1..Len(plugin_path_list) :
             (i < j /\ Name(plugin_path_list[i]) # "Apple.Core")
             => ScanPos(plugin_path_list[i]) < ScanPos(plugin_path_list[j])

\* Apple.Core scanned last, after two other folders
C11_Witness ==
    /\ Ordered
    /\ scan = <<"Apple.PHASE", "Apple.GameKit", "Apple.Core">>
    /\ plugin_path_list = <<Join(PluginRoot, "Apple.Core"),
                            Join(PluginRoot, "Apple.PHASE"),
                            Join(PluginRoot, "Apple.GameKit")>>

\* the calls of RemoveFolder a step adds to the output
NewRemovals == ArgsOf(SelectSeq(SubSeq(log', Len(log) + 1, Len(log')),
                                LAMBDA e : e.ev = "RemoveFolder"))

\* C12: the clean step of the packages requests the removal of the
\* build-output path exactly when clean action "packages" is selected and
\* the path exists, and requests no other removal; with "packages" selected
\* and the path missing the step requests nothing, changes no folder, and
\* goes on without an error.
C12_CleanPackagesOnlyWhenPathExists ==
    [][pc = "clean_packages"
       => /\ NewRemovals =
                IF CTX.clean_actions[PACKAGES] /\ Exists(fs, args.output_path)
                THEN <<args.output_path>> ELSE <<>>
          /\ (CTX.clean_actions[PACKAGES] /\ ~Exists(fs, args.output_path))
             => /\ log' = log
                /\ fs' = fs
                /\ err' = ""
                /\ pc' = "build_path"]_vars

\* "packages" selected, the path missing, and the step taken
C12_Witness ==
    /\ pc = "build_path"
    /\ CTX.clean_actions[PACKAGES]
    /\ args.output_path = DefaultBuildOutputPath
    /\ ~Exists(fs, args.output_path)
    /\ log = <<>>

\* on platforms and plug-ins NONE is warned about like any unknown token, and
\* the list [NONE] resolves to the default, every member true
NoneIsUnknown ==
    /\ args.platform_list = <<NONE>>
       => /\ CTX.platforms = AllSelected(PlatformKeys)
          /\ Calls("WarnUnknownPlatform") = <<Ev("WarnUnknownPlatform", <<NONE>>)>>
          /\ Len(Calls("WarnNoValidPlatform")) = 1
    /\ args.plugin_list = <<NONE>>
       => /\ CTX.plugins = AllSelected(PluginKeys)
          /\ Calls("WarnUnknownPlugin") = <<Ev("WarnUnknownPlugin", <<NONE>>)>>
          /\ Len(Calls("WarnNoValidPlugin")) = 1
    /\ \A m \in PlatformKeys :
          args.platform_list = <<m, NONE>>
          => /\ CTX.platforms = [k \in PlatformKeys |-> k = m]
             /\ Calls("WarnUnknownPlatform") = <<Ev("WarnUnknownPlatform", <<NONE>>)>>
             /\ Calls("WarnNoValidPlatform") = <<>>
    /\ \A m \in PluginKeys :
          args.plugin_list = <<m, NONE>>
          => /\ Calls("WarnUnknownPlugin") = <<Ev("WarnUnknownPlugin", <<NONE>>)>>
             /\ Calls("WarnNoValidPlugin") = <<>>

\* C13 as stated: platforms and plug-ins treat NONE as an unrecognized
\* token: [NONE] resolves to every member true, and [member, NONE] resolves
\* to exactly that member true.
C13_NoneUnknownExactlyMember ==
    Resolved =>
       /\ NoneIsUnknown
       /\ \A m \in PluginKeys :
             args.plugin_list = <<m, NONE>> => CTX.plugins = [k \in PluginKeys |-> k = m]

\* C13 as amended: platforms and plug-ins treat NONE as an unrecognized
\* token (a warning, not marked valid): [NONE] resolves to every member true,
\* and [member, NONE] resolves to exactly that member true, on the plug-ins
\* axis together with core when buildTests is set.
C13_NoneUnknownMemberAndForcedCore ==
    Resolved =>
       /\ NoneIsUnknown
       /\ \A m \in PluginKeys :
             args.plugin_list = <<m, NONE>>
             => CTX.plugins = [k \in PluginKeys |->
                                  k = m \/ (k = CORE /\ args.build_tests)]

C13_Witness ==
    /\ Resolved
    /\ args.plugin_list = <<GAME_KIT, NONE>>
    /\ ~args.build_tests
    /\ CTX.plugins = [k \in PluginKeys |-> k = GAME_KIT]

\* the place of an event in the order of Main: path preparation, toolchain
\* versions, codesign identity, manager, plug-ins, versions, tests, packages,
\* completion message
PhaseRank(ev) ==
    CASE ev \in {"RemoveFolder", "RemoveDeclined", "mkdir"} -> 0
      [] ev = "GetToolchainVersions" -> 1
      [] ev = "PromptForCodesignIdentity" -> 2
      [] ev \in {"NativeUnityPluginManager", "ScanForUnityInstallations"} -> 3
      [] ev = "ProcessNativeUnityPlugin" -> 4
      [] ev = "ValidateProjectVersions" -> 5
      [] ev = "BuildTests" -> 6
      [] ev = "GeneratePlugInPackages" -> 7
      [] ev = "Finished" -> 8

OncePerRun ==
    {"GetToolchainVersions", "PromptForCodesignIdentity", "ValidateProjectVersions",
     "BuildTests", "GeneratePlugInPackages", "Finished"}

\* C14: the events of a run occur in the fixed order path preparation (all
\* removals and creations), toolchain version query, codesign identity,
\* plug-in processing calls, ValidateProjectVersions, BuildTests,
\* GeneratePackages, completion message: no event of a later phase precedes
\* an event of an earlier one, each single call happens at most once, and
\* path preparation is over when the first later event happens.
C14_EventsInFixedOrder ==
    /\ \A i, j \in 1..Len(log) : i < j => PhaseRank(log[i].ev) <= PhaseRank(log[j].ev)
    /\ \A name \in OncePerRun : Len(Calls(name)) <= 1
    /\ ~NoLaterPhase => pc \notin {"validate", "clean_packages", "build_path",
                                   "clean_tests", "clean_players", "test_paths"}
    /\ Calls("ValidateProjectVersions") # <<>> => idx > Len(plugin_path_list)

C14_Witness ==
    /\ pc = "done"
    /\ Calls("RemoveFolder") # <<>>
    /\ Len(Calls("mkdir")) >= 2
    /\ Calls("PromptForCodesignIdentity") # <<>>
    /\ Len(Calls("ProcessNativeUnityPlugin")) >= 2
    /\ \A name \in OncePerRun : Len(Calls(name)) = 1

BuildPhaseEvents ==
    {"GetToolchainVersions", "PromptForCodesignIdentity", "ProcessNativeUnityPlugin",
     "ValidateProjectVersions"}

AfterBuildPhase == pc \in {"tests", "pack", "finish", "done"}

\* C15: configure, process plug-ins and validate versions are gated by build
\* action "build" alone: a run with "build" enabled that has come through
\* them without failure has queried the toolchain versions once, processed
\* each directory of the plug-in ordering exactly once, in that order, and
\* invoked ValidateProjectVersions once, after the last plug-in; a run with
\* "build" disabled never invokes the toolchain query, the codesign prompt,
\* the plug-in processing or ValidateProjectVersions.
C15_BuildPhasesGatedByBuild ==
    /\ (Resolved /\ CTX.build_actions[BUILD] /\ AfterBuildPhase)
       => /\ Len(Calls("GetToolchainVersions")) = 1
          /\ plugin_path_list = PluginPathList(fs, scan, 1, <<>>)
          /\ ArgsOf(Calls("ProcessNativeUnityPlugin")) = plugin_path_list
          /\ \A i, j \in 1..Len(plugin_path_list) :
                plugin_path_list[i] = plugin_path_list[j] => i = j
          /\ Len(Calls("ValidateProjectVersions")) = 1
          /\ \A i, j \in 1..Len(log) :
                (log[i].ev = "ProcessNativeUnityPlugin"
                 /\ log[j].ev = "ValidateProjectVersions") => i < j
    /\ (Resolved /\ ~CTX.build_actions[BUILD])
       => \A i \in 1..Len(log) : log[i].ev \notin BuildPhaseEvents

C15_Witness ==
    /\ pc = "done"
    /\ CTX.build_actions[BUILD]
    /\ ~CTX.build_actions[PACK]
    /\ ~CTX.build_tests
    /\ Len(plugin_path_list) >= 2
    /\ ArgsOf(Calls("ProcessNativeUnityPlugin")) = plugin_path_list
    /\ Len(Calls("ValidateProjectVersions")) = 1

\* the run has come through the codesign resolution of lines 311-314
PastConfigure ==
    \/ pc \in {"process", "tests", "pack", "finish", "done"}
    \/ pc = "crashed" /\ err \in {"PluginError", "UnboundLocalError"}

\* C16: the codesign hash is resolved only with build action "build" enabled:
\* it is then the empty string if skipCodesign is set, otherwise the supplied
\* identity if that is non-empty, otherwise the prompter's answer; without
\* "build", and before the configure phase, it is left as it was. The
\* prompter is invoked exactly when "build" is enabled, skipCodesign is not
\* set and the supplied identity is empty.
C16_CodesignHashResolution ==
    /\ (PastConfigure /\ CTX.build_actions[BUILD])
       => /\ args.skip_codesign => CTX.codesign_hash = ""
          /\ (~args.skip_codesign /\ args.codesign_identity # "")
             => CTX.codesign_hash = args.codesign_identity
          /\ (~args.skip_codesign /\ args.codesign_identity = "")
             => CTX.codesign_hash \in PromptAnswers
    /\ (~PastConfigure \/ ~CTX.build_actions[BUILD])
       => /\ CTX.codesign_hash = InitialCTX.codesign_hash
          /\ Calls("PromptForCodesignIdentity") = <<>>
    /\ PastConfigure
       => (Len(Calls("PromptForCodesignIdentity")) = 1
           <=> (CTX.build_actions[BUILD] /\ ~args.skip_codesign
                /\ args.codesign_identity = ""))
    /\ Len(Calls("PromptForCodesignIdentity")) <= 1

C16_Witness ==
    /\ pc = "done"
    /\ CTX.build_actions[BUILD]
    /\ ~args.skip_codesign
    /\ args.codesign_identity = ""
    /\ CTX.codesign_hash \in PromptAnswers
    /\ Len(Calls("PromptForCodesignIdentity")) = 1

\* the exceptions of pathlib.Path.mkdir()
MkdirErrors == {"FileExistsError", "FileNotFoundError"}

LastEvent == log[Len(log)]

\* C17: a failed directory creation is fatal: the run ends at the mkdir that
\* failed (missing parent of the build-output path or of the test-output
\* root, or a time-stamped directory that exists), the directory is not
\* made, no collaborator of a later phase has been or is invoked and the
\* completion message is not printed; a run goes on from a creation step
\* only when every mkdir of the step succeeded.
C17_FailedMkdirIsFatal ==
    /\ [](err \in MkdirErrors
          => /\ pc = "crashed"
             /\ NoLaterPhase
             /\ log # <<>>
             /\ LastEvent.ev = "mkdir"
             /\ Mkdir(fs, LastEvent.arg).err = err)
    /\ [][/\ pc # "crashed"
          /\ (pc \in {"build_path", "test_paths"} /\ pc' # "crashed")
             => \A i \in (Len(log) + 1)..Len(log') :
                   log'[i].ev = "mkdir" /\ ~Exists(fs, log'[i].arg)
                                        /\ Exists(fs', log'[i].arg)]_vars

C17_Witness ==
    /\ pc = "crashed"
    /\ err = "FileExistsError"
    /\ LastEvent = Ev("mkdir", TestBuildOutputPath(CTX.test_build_root, invocation_time))
    /\ Len(Calls("mkdir")) >= 2
    /\ NoLaterPhase

NewEvents == SubSeq(log', Len(log) + 1, Len(log'))

\* C18: the step after clean packages creates the build-output path exactly
\* when build action "build" or "pack" is enabled and the path does not exist
\* at that point, also when clean action "packages" has just removed it: one
\* mkdir of the path, which makes it when its parent exists; with both build
\* actions disabled, or with the path in place, nothing is created or
\* attempted.
C18_BuildPathCreatedWhenMissing ==
    [][pc = "build_path"
       => LET missing == ~Exists(fs, args.output_path)
              wanted == CTX.build_actions[BUILD] \/ CTX.build_actions[PACK]
          IN /\ CTX.build_path = args.output_path
             /\ (wanted /\ missing)
                => /\ NewEvents = <<Ev("mkdir", args.output_path)>>
                   /\ Exists(fs, Parent(args.output_path))
                      => /\ fs' = fs \cup {args.output_path}
                         /\ pc' = "clean_tests"
             /\ ~(wanted /\ missing)
                => /\ NewEvents = <<>>
                   /\ fs' = fs
                   /\ pc' = "clean_tests"]_vars

C18_Witness ==
    /\ pc = "clean_tests"
    /\ Len(log) = 2
    /\ log[1].ev = "RemoveFolder" /\ log[1].arg = args.output_path
    /\ log[2] = Ev("mkdir", args.output_path)
    /\ Exists(fs, args.output_path)
    /\ ~CTX.build_actions[BUILD]
    /\ CTX.build_actions[PACK]

\* the removals asked for by the clean-tests step, in the order of the calls
TestRemovals ==
    SelectSeq(log, LAMBDA e : e.ev = "RemoveFolder" /\ e.arg # args.output_path)

\* the TestPlayers folders of the entries of the plug-in root
PlayerPaths == {TestPlayerPath(Join(PluginRoot, scan[i])) : i \in 1..Len(scan)}

Declined(p) == \E i \in 1..Len(log) : log[i] = Ev("RemoveDeclined", p)

\* C19: test cleanup is asked for only when clean action "tests" is selected
\* and the test-output root exists: the step then asks for the removal of
\* the root and, when it is through, has asked once for the removal of every
\* <PluginName>_Unity/TestPlayers folder of the plug-in root, each call
\* prompting exactly when forceClean is not set; with "tests" not selected
\* or the root missing the step asks for no removal, removes nothing and
\* skips the TestPlayers folders.
C19_TestCleanupOnlyWhenRootExists ==
    /\ [](\A i \in 1..Len(log) :
             log[i].ev = "RemoveFolder" => log[i].prompt = ~args.force_clean)
    /\ [](pc = "test_paths" /\ TestRemovals # <<>>
          => /\ CTX.clean_actions[TESTS]
             /\ TestRemovals[1].arg = args.test_output_path
             /\ \A i \in 2..Len(TestRemovals) : TestRemovals[i].arg \in PlayerPaths
             /\ \A i, j \in 1..Len(TestRemovals) :
                   TestRemovals[i].arg = TestRemovals[j].arg => i = j
             /\ \A p \in PlayerPaths :
                   Exists(fs, p) => /\ Declined(p)
                                    /\ \E i \in 2..Len(TestRemovals) :
                                          TestRemovals[i].arg = p)
    /\ [][pc = "clean_tests"
          => IF CTX.clean_actions[TESTS] /\ Exists(fs, args.test_output_path)
             THEN /\ NewEvents # <<>>
                  /\ NewEvents[1] = [ev |-> "RemoveFolder",
                                     arg |-> args.test_output_path,
                                     prompt |-> ~args.force_clean]
                  /\ pc' \in {"clean_players", "crashed"}
             ELSE /\ NewEvents = <<>>
                  /\ fs' = fs
                  /\ pc' = "test_paths"]_vars

C19_Witness ==
    /\ pc = "test_paths"
    /\ ~args.force_clean
    /\ Len(TestRemovals) = 3
    /\ \A i \in 1..3 : TestRemovals[i].prompt
    /\ \E p \in PlayerPaths : Declined(p)
    /\ \E p \in PlayerPaths : ~Exists(fs, p) /\ \E i \in 2..3 : TestRemovals[i].arg = p

\* the step Main goes on with after the removal asked for at a step
AfterRemoval(at) ==
    CASE at = "clean_packages" -> "build_path"
      [] at = "clean_tests" -> "clean_players"
      [] at = "clean_players" -> "clean_players"

\* C20: a declined deletion prompt does not abort the run: the step in which
\* the user declines leaves every directory in place, raises nothing and
\* goes on where a removal would have gone on; a build-output path whose
\* removal was declined stays and is not created again.
C20_DeclineSkipsTheCleanup ==
    /\ [][(\E i \in 1..Len(NewEvents) : NewEvents[i].ev = "RemoveDeclined")
          => /\ Len(NewEvents) = 2
             /\ NewEvents[1].ev = "RemoveFolder" /\ NewEvents[1].prompt
             /\ NewEvents[2] = Ev("RemoveDeclined", NewEvents[1].arg)
             /\ Exists(fs, NewEvents[1].arg)
             /\ fs' = fs
             /\ err' = err /\ err = ""
             /\ pc \in {"clean_packages", "clean_tests", "clean_players"}
             /\ pc' = AfterRemoval(pc)]_vars
    /\ [](Declined(args.output_path)
          => /\ Exists(fs, args.output_path)
             /\ \A i \in 1..Len(log) : log[i] # Ev("mkdir", args.output_path))

C20_Witness ==
    /\ pc = "done"
    /\ Declined(args.output_path)
    /\ Declined(args.test_output_path)
    /\ \E p \in PlayerPaths : Declined(p)
    /\ Exists(fs, args.output_path)
    /\ Exists(fs, args.test_output_path)
    /\ CTX.build_actions[BUILD] /\ CTX.build_actions[PACK] /\ CTX.build_tests
    /\ Len(Calls("Finished")) = 1

---------------------------------------------------------------------------
(* The selections against the folders that are processed *)

\* command lines that select some plug-ins and platforms, with and without
\* build action "build", clean actions and -t
SelectArgs ==
    {[DefaultArgs EXCEPT !.plugin_list = p, !.platform_list = f,
                         !.build_actions = b, !.clean_actions = k,
                         !.build_tests = t, !.force_clean = TRUE,
                         !.skip_codesign = TRUE] :
        p \in {<<ALL>>, <<GAME_KIT>>, <<PHASE>>},
        f \in {<<ALL>>, <<IOS>>},
        b \in {<<BUILD>>, <<PACK>>},
        k \in {<<NONE>>, <<ALL>>},
        t \in BOOLEAN}

InitSelect ==
    \E a \in SelectArgs, pr \in OrderRootStates :
        InitRun(a, FirstTime, {DefaultBuildOutputPath, DefaultTestBuildRoot}, pr)

SpecSelect == InitSelect /\ [][RunNext]_vars

Processed == ArgsOf(Calls("ProcessNativeUnityPlugin"))

\* C21: the folders handed to ProcessNativeUnityPlugin do not depend on the
\* resolved plug-ins or platforms: a run with build action "build" that has
\* come through the loop has passed every folder found in the plug-in root
\* exactly once, the folders of plug-ins that are not selected too; and from
\* the end of the resolution on no step of path preparation or of the phases
\* changes one of the four selection sets.
C21_ProcessedFoldersIgnoreSelection ==
    /\ []((Resolved /\ CTX.build_actions[BUILD] /\ AfterBuildPhase)
          => /\ {Processed[i] : i \in 1..Len(Processed)} = ScannedDirs
             /\ Len(Processed) = Cardinality(ScannedDirs))
    /\ [][Resolved
          => /\ CTX'.build_actions = CTX.build_actions
             /\ CTX'.platforms = CTX.platforms
             /\ CTX'.plugins = CTX.plugins
             /\ CTX'.clean_actions = CTX.clean_actions]_vars

\* only PHASE and iOS selected, and the folders of GameKit and Core processed
C21_Witness ==
    /\ pc = "done"
    /\ CTX.plugins = [k \in PluginKeys |-> k = PHASE]
    /\ CTX.platforms = [k \in PlatformKeys |-> k = IOS]
    /\ Processed = <<Join(PluginRoot, "Apple.Core"), Join(PluginRoot, "Apple.GameKit"),
                     Join(PluginRoot, "Apple.PHASE")>>

====
